---------------------------- MODULE Spec2Model ----------------------------
(* The ask_user handshake: a Requester (the ask_user tool, execute) and a  *)
(* Responder (ask-user-cli.ts, main) that meet in one mailbox directory.   *)
(* Every file operation of the two programs is modelled on the directory   *)
(* variable dir; a file that is being written by the other process can be  *)
(* seen before its content is complete (Partial).                          *)
EXTENDS Integers, Sequences, FiniteSets, TLC

(***************************************************************************)
(* Bounds of the model                                                     *)
(***************************************************************************)
\* number of empty lines the human types in a row before any content
MaxEmpty == 2
\* number of incidents in one run: a restart of the Responder process, or
\* a file operation that throws
MaxIncidents == 1

(***************************************************************************)
(* Program constants                                                       *)
(***************************************************************************)
DEFAULT_TIMEOUT_SEC == 300
MsPerSec == 1000

\* the calls of execute that the agent makes, numbered in the order made
Calls == {1, 2}
\* args.timeout: absent, or a number of seconds
Undefined == << >>
TimeoutArgs == {Undefined, <<300>>}
\* Math.random().toString(36).substring(2, 9), by its rank in string order;
\* only the order of two suffixes matters, so the first call gets the middle
\* rank and a later call a rank below or above it
RandomsOf(c) == IF c = 1 THEN {1} ELSE {0, 2}

\* the content of a file whose writer has not finished: JSON.parse throws
Partial == [partial |-> TRUE]

\* the clock is sampled every ClockStep milliseconds
ClockStep == DEFAULT_TIMEOUT_SEC * MsPerSec

(***************************************************************************)
(* Text: a string is a sequence of one-character strings                   *)
(***************************************************************************)
NL == "\n"
LineA == <<"a">>
LineBlank == <<" ">>
LineCancel == <<"C", "a", "n", "c", "e", "l">>
\* what the human types for one prompt: the non-empty lines, in order,
\* before the empty line that submits them
InputScripts == {<<LineA, LineBlank>>, <<LineBlank, LineCancel>>}
InputLines == {LineA, LineBlank, LineCancel}

IsSpace(ch) == ch \in {" ", NL}

\* mutant: the comparison with the cancel token keeps the letter case
toLowerCase_KeepsCase(s) == s

\* String.prototype.toLowerCase, on the characters the model uses
LowerChar(ch) == IF ch = "C" THEN "c" ELSE ch
toLowerCase(s) == [i \in 1..Len(s) |-> LowerChar(s[i])]

RECURSIVE join(_)
\* Array.prototype.join("\n")
join(ls) ==
  IF ls = << >> THEN << >>
  ELSE IF Len(ls) = 1 THEN ls[1]
  ELSE ls[1] \o <<NL>> \o join(Tail(ls))

RECURSIVE trimStart(_)
trimStart(s) ==
  IF s # << >> /\ IsSpace(s[1]) THEN trimStart(Tail(s)) ELSE s

RECURSIVE trimEnd(_)
trimEnd(s) ==
  IF s # << >> /\ IsSpace(s[Len(s)]) THEN trimEnd(SubSeq(s, 1, Len(s) - 1)) ELSE s

\* String.prototype.trim
trim(s) == trimEnd(trimStart(s))

CancelToken == <<"c", "a", "n", "c", "e", "l">>

(***************************************************************************)
(* State                                                                   *)
(***************************************************************************)
VARIABLES
  now,                 \* Date.now()
  dir,                 \* the mailbox: file name -> content
  pc,                  \* per call: idle, writing, poll, done, threw
  questionId,          \* per call: the id generateQuestionId returned
  timeoutSec,          \* per call
  startTime,           \* per call
  aborted,             \* per call: context.abort.aborted
  result,              \* per call: the values execute returned, in order
  rpc,                 \* Responder: scan, prompt, write, exited
  questions,           \* Responder: the array of the current scan
  qi,                  \* Responder: index of the question being served
  processedQuestions,  \* Responder: the set of processed question ids
  lines,               \* promptUser: lines
  emptyLineCount,      \* promptUser: emptyLineCount
  answered,            \* per question presented: the lines the human entered
                       \* for it, noted when its reply is on disk
  incidents            \* number of incidents so far

reqVars == <<pc, questionId, timeoutSec, startTime, aborted, result>>
respVars == <<rpc, questions, qi, processedQuestions, lines, emptyLineCount,
              answered>>
vars == <<now, dir, incidents, reqVars, respVars>>

(***************************************************************************)
(* File names and the directory                                            *)
(***************************************************************************)
\* path.join(IPC_DIR, `question_${id}.json`), `response_${id}.json`
questionFile(id) == [kind |-> "question", id |-> id]
responseFile(id) == [kind |-> "response", id |-> id]

existsSync(f) == f \in DOMAIN dir
\* the directory after fs.unlinkSync(f)
Unlinked(d, f) == [g \in (DOMAIN d) \ {f} |-> d[g]]
\* the directory after fs.writeFileSync(f, c) (create or overwrite)
Stored(d, f, c) == [g \in (DOMAIN d) \cup {f} |-> IF g = f THEN c ELSE d[g]]

\* string order of two file names of the same kind: the timestamps have
\* the same number of digits, so they compare as numbers, then the suffix
FileLess(f, g) ==
  \/ f.id.ts < g.id.ts
  \/ f.id.ts = g.id.ts /\ f.id.rnd < g.id.rnd

RECURSIVE SortFiles(_)
\* Array.prototype.sort() on a set of file names
SortFiles(S) ==
  IF S = {} THEN << >>
  ELSE LET m == CHOOSE f \in S : \A g \in S \ {f} : FileLess(f, g)
       IN <<m>> \o SortFiles(S \ {m})


(***************************************************************************)
(* Requester: execute                                                      *)
(* A file operation that can throw has, besides the action where it        *)
(* succeeds, an action where it throws.                                    *)
(***************************************************************************)
\* `q_${timestamp}_${random}`
generateQuestionId(r) == [ts |-> now, rnd |-> r]

\* the ids handed out so far; the scheme is taken to return a fresh one
UsedIds == {questionId[c] : c \in {d \in Calls : pc[d] # "idle"}}

\* args.timeout ?? DEFAULT_TIMEOUT_SEC
TimeoutOf(t) == IF t = Undefined THEN DEFAULT_TIMEOUT_SEC ELSE t[1]
\* mutant: the seconds are compared with milliseconds
timeoutMs_Seconds(c) == timeoutSec[c]
timeoutMs(c) == timeoutSec[c] * MsPerSec

\* the values execute returns (before JSON.stringify)
AbortedReason == <<"Agent aborted the request">>
CancelledReason == <<"User cancelled the request">>
TimeoutReason(sec) == <<"Timeout after", sec, "seconds waiting for user response">>
CancelledOutcome(reason) ==
  [responded |-> FALSE, response |-> << >>, cancelled |-> TRUE, reason |-> reason]
\* mutant: the answered outcome carries a reason field as well
AnsweredOutcome_WithReason(text) ==
  [responded |-> TRUE, response |-> text, cancelled |-> FALSE, reason |-> << >>]

AnsweredOutcome(text) ==
  [responded |-> TRUE, response |-> text, cancelled |-> FALSE]

\* execute, up to the creation of the question file; the file is on disk
\* but its content is not complete yet
AskBegin(c, t, r) ==
  /\ pc[c] = "idle" /\ \A d \in Calls : d < c => pc[d] # "idle"
  /\ generateQuestionId(r) \notin UsedIds
  /\ questionId' = [questionId EXCEPT ![c] = generateQuestionId(r)]
  /\ timeoutSec' = [timeoutSec EXCEPT ![c] = TimeoutOf(t)]
  /\ dir' = Stored(dir, questionFile(generateQuestionId(r)), Partial)
  /\ pc' = [pc EXCEPT ![c] = "writing"]
  /\ UNCHANGED <<now, incidents, startTime, aborted, result, respVars>>

\* fs.writeFileSync(questionFile, ...) throws before it creates the file:
\* the call is outside the try block and execute rejects
AskThrow(c, t, r) ==
  /\ incidents < MaxIncidents /\ incidents' = incidents + 1
  /\ pc[c] = "idle" /\ \A d \in Calls : d < c => pc[d] # "idle"
  /\ generateQuestionId(r) \notin UsedIds
  /\ questionId' = [questionId EXCEPT ![c] = generateQuestionId(r)]
  /\ timeoutSec' = [timeoutSec EXCEPT ![c] = TimeoutOf(t)]
  /\ UNCHANGED dir
  /\ pc' = [pc EXCEPT ![c] = "threw"]
  /\ UNCHANGED <<now, startTime, aborted, result, respVars>>

\* the question file is complete; startTime is taken and the loop begins
AskWritten(c) ==
  /\ pc[c] = "writing"
  /\ dir' = Stored(dir, questionFile(questionId[c]), [id |-> questionId[c]])
  /\ startTime' = [startTime EXCEPT ![c] = now]
  /\ pc' = [pc EXCEPT ![c] = "poll"]
  /\ UNCHANGED <<now, incidents, questionId, timeoutSec, aborted, result, respVars>>

\* mutant: any response file of the mailbox is taken for the reply
ReplyFileOf_AnyReply(c) ==
  IF \E f \in DOMAIN dir : f.kind = "response"
  THEN CHOOSE f \in DOMAIN dir : f.kind = "response"
  ELSE responseFile(questionId[c])

\* the file the loop looks for: response_${questionId}.json
ReplyFileOf(c) == responseFile(questionId[c])

\* mutant: the loop never checks the deadline
TickBranch_NoTimeout(c) ==
  IF aborted[c] THEN "abort"
  ELSE IF existsSync(ReplyFileOf(c)) THEN "reply"
  ELSE "sleep"

\* mutant: the reply is looked for before the abort signal and the deadline
TickBranch_ReplyFirst(c) ==
  IF existsSync(ReplyFileOf(c)) THEN "reply"
  ELSE IF aborted[c] THEN "abort"
  ELSE IF now - startTime[c] > timeoutMs(c) THEN "timeout"
  ELSE "sleep"

\* the branch one iteration of the poll loop takes
TickBranch(c) ==
  IF aborted[c] THEN "abort"
  ELSE IF now - startTime[c] > timeoutMs(c) THEN "timeout"
  ELSE IF existsSync(ReplyFileOf(c)) THEN "reply"
  ELSE "sleep"

\* mutant: the clean-up leaves the question file in the mailbox
QuestionRemoved_Keeps(c) == dir

\* mutant: the abort and timeout branches remove the reply as well
QuestionRemoved_AndReply(c) ==
  [g \in (DOMAIN dir) \ {questionFile(questionId[c]), responseFile(questionId[c])}
     |-> dir[g]]

\* if (fs.existsSync(questionFile)) fs.unlinkSync(questionFile)
QuestionRemoved(c) ==
  IF existsSync(questionFile(questionId[c]))
  THEN Unlinked(dir, questionFile(questionId[c]))
  ELSE dir

\* the clean-up after a successful parse of the reply
BothRemoved(c) == Unlinked(QuestionRemoved(c), ReplyFileOf(c))

\* the value returned for a parsed reply
ReplyOutcome(responseData) ==
  IF responseData.responded
  THEN AnsweredOutcome(responseData.response)
  ELSE CancelledOutcome(CancelledReason)

Return(c, value) ==
  /\ result' = [result EXCEPT ![c] = Append(@, value)]
  /\ pc' = [pc EXCEPT ![c] = "done"]

TickAbort(c) ==
  /\ pc[c] = "poll" /\ TickBranch(c) = "abort"
  /\ dir' = QuestionRemoved(c)
  /\ Return(c, CancelledOutcome(AbortedReason))
  /\ UNCHANGED <<now, incidents, questionId, timeoutSec, startTime, aborted, respVars>>

TickTimeout(c) ==
  /\ pc[c] = "poll" /\ TickBranch(c) = "timeout"
  /\ dir' = QuestionRemoved(c)
  /\ Return(c, CancelledOutcome(TimeoutReason(timeoutSec[c])))
  /\ UNCHANGED <<now, incidents, questionId, timeoutSec, startTime, aborted, respVars>>

\* what the catch block leaves behind: its unlink of the question file
\* throws again, or succeeds and the unlink of the response file (if the
\* file exists) throws or succeeds
CatchCleanups(c) ==
  {dir, QuestionRemoved(c)} \cup
    (IF existsSync(ReplyFileOf(c)) THEN {BothRemoved(c)} ELSE {})

\* unlinkSync(questionFile) throws in the abort or timeout branch: the
\* catch block cleans up as far as it gets and the call rejects
TickThrow(c) ==
  /\ incidents < MaxIncidents /\ incidents' = incidents + 1
  /\ pc[c] = "poll" /\ TickBranch(c) \in {"abort", "timeout"}
  /\ existsSync(questionFile(questionId[c]))
  /\ dir' \in CatchCleanups(c)
  /\ pc' = [pc EXCEPT ![c] = "threw"]
  /\ UNCHANGED <<now, questionId, timeoutSec, startTime, aborted, result,
                 respVars>>

\* the reply parses and both files are removed
TickReply(c) ==
  /\ pc[c] = "poll" /\ TickBranch(c) = "reply"
  /\ dir[ReplyFileOf(c)] # Partial
  /\ dir' = BothRemoved(c)
  /\ Return(c, ReplyOutcome(dir[ReplyFileOf(c)]))
  /\ UNCHANGED <<now, incidents, questionId, timeoutSec, startTime, aborted, respVars>>

\* mutant: a reply that does not parse is deleted
TickRetry_Unlinks(c) ==
  /\ pc[c] = "poll" /\ TickBranch(c) = "reply"
  /\ dir[ReplyFileOf(c)] = Partial
  /\ dir' = Unlinked(dir, ReplyFileOf(c))
  /\ UNCHANGED <<now, incidents, reqVars, respVars>>

\* the inner catch: JSON.parse throws on an incomplete file; wait and retry
TickRetry(c) ==
  /\ pc[c] = "poll" /\ TickBranch(c) = "reply"
  /\ dir[ReplyFileOf(c)] = Partial
  /\ UNCHANGED vars

\* the inner catch: readFileSync or an unlinkSync throws on a complete
\* reply; the question file may be gone already; wait and retry
TickCleanupThrows(c) ==
  /\ incidents < MaxIncidents /\ incidents' = incidents + 1
  /\ pc[c] = "poll" /\ TickBranch(c) = "reply"
  /\ dir[ReplyFileOf(c)] # Partial
  /\ dir' \in {dir, QuestionRemoved(c)}
  /\ UNCHANGED <<now, reqVars, respVars>>

\* nothing to do: wait POLL_INTERVAL_MS
TickSleep(c) ==
  /\ pc[c] = "poll" /\ TickBranch(c) = "sleep"
  /\ UNCHANGED vars

Tick(c) ==
  \/ TickAbort(c) \/ TickTimeout(c) \/ TickThrow(c)
  \/ TickReply(c) \/ TickRetry(c) \/ TickCleanupThrows(c) \/ TickSleep(c)

\* the agent runtime fires the abort signal of a call
Abort(c) ==
  /\ pc[c] \in {"writing", "poll"} /\ ~aborted[c]
  /\ aborted' = [aborted EXCEPT ![c] = TRUE]
  /\ UNCHANGED <<now, incidents, dir, pc, questionId, timeoutSec, startTime, result,
                 respVars>>

(***************************************************************************)
(* Responder: main, getPendingQuestions, promptUser, writeResponse         *)
(***************************************************************************)

\* mutant: the file names are served in descending order
QuestionFiles_Descending ==
  LET up == SortFiles({f \in DOMAIN dir : f.kind = "question"})
  IN [i \in 1..Len(up) |-> up[Len(up) + 1 - i]]

\* readdirSync(...).filter(question_*.json).sort()
QuestionFiles == SortFiles({f \in DOMAIN dir : f.kind = "question"})

\* mutant: only the first file of the listing is read
getPendingQuestions_FirstOnly(unreadable) ==
  LET ok == SelectSeq(IF QuestionFiles = << >> THEN << >> ELSE <<QuestionFiles[1]>>,
                      LAMBDA f : dir[f] # Partial /\ f \notin unreadable)
  IN [i \in 1..Len(ok) |-> dir[ok[i]]]

\* the questions of one scan: the files that can be read and parse, in the
\* order of the sort; readFileSync throws on the files in `unreadable`
getPendingQuestions(unreadable) ==
  LET ok == SelectSeq(QuestionFiles,
                      LAMBDA f : dir[f] # Partial /\ f \notin unreadable)
  IN [i \in 1..Len(ok) |-> dir[ok[i]]]

\* mutant: the loop does not consult processedQuestions
NextIndex_NoSeenSet(qs, from) == IF from <= Len(qs) THEN from ELSE 0

\* the first index from `from` on whose question is not processed yet, or 0
NextIndex(qs, from) ==
  LET S == {i \in from..Len(qs) : qs[i].id \notin processedQuestions}
  IN IF S = {} THEN 0 ELSE CHOOSE i \in S : \A j \in S : i <= j

\* the for loop of main from index `from` up to its next await: either the
\* prompt of the next unprocessed question or the sleep before the next scan
Serve(qs, from) ==
  LET i == NextIndex(qs, from)
  IN IF i = 0
     THEN /\ rpc' = "scan"
          /\ questions' = << >>
          /\ qi' = 0
          /\ UNCHANGED processedQuestions
     ELSE /\ rpc' = "prompt"
          /\ questions' = qs
          /\ qi' = i
          /\ processedQuestions' = processedQuestions \cup {qs[i].id}

Scan(unreadable) ==
  /\ rpc = "scan"
  /\ IF unreadable = {}
     THEN UNCHANGED incidents
     ELSE incidents < MaxIncidents /\ incidents' = incidents + 1
  /\ Serve(getPendingQuestions(unreadable), 1)
  /\ lines' = << >> /\ emptyLineCount' = 0
  /\ UNCHANGED <<now, dir, reqVars, answered>>

\* readdirSync throws: main rejects and the catch handler exits the process
ScanThrow ==
  /\ incidents < MaxIncidents /\ incidents' = incidents + 1
  /\ rpc = "scan"
  /\ rpc' = "exited"
  /\ UNCHANGED <<now, dir, reqVars, questions, qi, processedQuestions,
                 lines, emptyLineCount, answered>>

IsPrefix(p, q) == Len(p) <= Len(q) /\ SubSeq(q, 1, Len(p)) = p

\* a non-empty line
TypeLine(line) ==
  /\ rpc = "prompt"
  /\ \E script \in InputScripts : IsPrefix(Append(lines, line), script)
  /\ emptyLineCount' = 0
  /\ lines' = Append(lines, line)
  /\ UNCHANGED <<now, incidents, dir, reqVars, rpc, questions, qi, processedQuestions,
                 answered>>

\* whether an empty line submits: emptyLineCount >= 1 && lines.length > 0
Submits(count, ls) == count >= 1 /\ Len(ls) > 0

\* an empty line that does not submit
TypeEmpty ==
  /\ rpc = "prompt" /\ emptyLineCount < MaxEmpty
  /\ ~Submits(emptyLineCount + 1, lines)
  /\ emptyLineCount' = emptyLineCount + 1
  /\ UNCHANGED <<now, incidents, dir, reqVars, rpc, questions, qi, processedQuestions,
                 lines, answered>>

\* lines.join("\n").trim()
Collected(ls) == trim(join(ls))

\* the arguments of the writeResponse call for the collected text
ResponseFor(id, response) ==
  IF toLowerCase(response) = CancelToken
  THEN [id |-> id, response |-> << >>, responded |-> FALSE]
  ELSE [id |-> id, response |-> response, responded |-> TRUE]

\* the id writeResponse is called with: question.id
WriteIdOf(question) == question.id

\* mutant: writing the reply removes the question file
writeResponse_RemovesQuestion(id, content) ==
  Unlinked(Stored(dir, responseFile(id), content), questionFile(id))

\* the directory after fs.writeFileSync(responseFile, content)
writeResponse(id, content) == Stored(dir, responseFile(id), content)

\* the empty line that submits: writeResponse opens the response file
Submit ==
  /\ rpc = "prompt" /\ Submits(emptyLineCount + 1, lines)
  /\ lines \in InputScripts
  /\ emptyLineCount' = emptyLineCount + 1
  /\ dir' = writeResponse(WriteIdOf(questions[qi]), Partial)
  /\ rpc' = "write"
  /\ UNCHANGED <<now, incidents, reqVars, questions, qi, processedQuestions, lines,
                 answered>>

\* writeFileSync throws inside the readline callback: nothing catches it
\* and the process ends; the file is untouched or incomplete
SubmitThrow ==
  /\ incidents < MaxIncidents /\ incidents' = incidents + 1
  /\ rpc = "prompt" /\ Submits(emptyLineCount + 1, lines)
  /\ lines \in InputScripts
  /\ dir' \in {dir, writeResponse(WriteIdOf(questions[qi]), Partial)}
  /\ rpc' = "exited"
  /\ UNCHANGED <<now, reqVars, questions, qi, processedQuestions,
                 lines, emptyLineCount, answered>>

\* the record writeResponse is writing
responseData == ResponseFor(WriteIdOf(questions[qi]), Collected(lines))

\* the response file is complete; promptUser resolves and the loop goes on
WriteDone ==
  /\ rpc = "write"
  /\ dir' = writeResponse(WriteIdOf(questions[qi]), responseData)
  /\ answered' = Stored(answered, questions[qi].id, lines)
  /\ Serve(questions, qi + 1)
  /\ lines' = << >> /\ emptyLineCount' = 0
  /\ UNCHANGED <<now, incidents, reqVars>>

\* the Responder is stopped (Ctrl+C, or it has exited) and started again:
\* nothing of its memory survives
Restart ==
  /\ incidents < MaxIncidents /\ incidents' = incidents + 1
  /\ rpc' = "scan"
  /\ questions' = << >> /\ qi' = 0
  /\ processedQuestions' = {}
  /\ lines' = << >> /\ emptyLineCount' = 0
  /\ UNCHANGED <<now, dir, reqVars, answered>>

(***************************************************************************)
(* Environment: the clock                                                  *)
(***************************************************************************)
\* a call whose deadline the clock has not passed yet
DeadlinePending ==
  \E c \in Calls : pc[c] = "poll" /\ now - startTime[c] <= timeoutMs(c)

AdvanceClock ==
  /\ DeadlinePending
  /\ now' = now + ClockStep
  /\ UNCHANGED <<dir, incidents, reqVars, respVars>>

(***************************************************************************)
(* Specification                                                           *)
(***************************************************************************)
Init ==
  /\ now = 0
  /\ incidents = 0
  /\ dir = << >>
  /\ pc = [c \in Calls |-> "idle"]
  /\ questionId = [c \in Calls |-> [ts |-> -1, rnd |-> -1]]
  /\ timeoutSec = [c \in Calls |-> 0]
  /\ startTime = [c \in Calls |-> 0]
  /\ aborted = [c \in Calls |-> FALSE]
  /\ result = [c \in Calls |-> << >>]
  /\ rpc = "scan"
  /\ questions = << >>
  /\ qi = 0
  /\ processedQuestions = {}
  /\ lines = << >>
  /\ emptyLineCount = 0
  /\ answered = << >>

RequesterNext ==
  \E c \in Calls :
    \/ \E t \in TimeoutArgs, r \in RandomsOf(c) : AskBegin(c, t, r) \/ AskThrow(c, t, r)
    \/ AskWritten(c)
    \/ Tick(c)

ResponderNext ==
  \/ \E unreadable \in SUBSET {f \in DOMAIN dir : f.kind = "question"} :
       Scan(unreadable)
  \/ ScanThrow
  \/ \E line \in InputLines : TypeLine(line)
  \/ TypeEmpty \/ Submit \/ SubmitThrow \/ WriteDone

EnvNext ==
  \/ \E c \in Calls : Abort(c)
  \/ Restart
  \/ AdvanceClock

Next == RequesterNext \/ ResponderNext \/ EnvNext

Spec == Init /\ [][Next]_vars

\* the poll loop of every call keeps ticking (setTimeout fires), a write
\* that has begun completes, and the clock advances
Fairness ==
  /\ WF_vars(AdvanceClock)
  /\ \A c \in Calls : WF_vars(Tick(c)) /\ WF_vars(AskWritten(c))

FairSpec == Spec /\ Fairness

(***************************************************************************)
(* Properties                                                              *)
(***************************************************************************)
\* Responder activity for the question of call c: a reply file, complete or
\* not, or a reply noted as written
ReplySeen(c) ==
  existsSync(responseFile(questionId[c])) \/ questionId[c] \in DOMAIN answered

\* C2: under fairness every call that has created its question returns or
\* rejects with the error of a failed file operation; when it has returned
\* with no abort signal and no Responder activity for its question, the
\* value returned is the cancelled outcome with the timeout reason
C2_TimesOut ==
  \A c \in Calls :
    (pc[c] \in {"writing", "poll"}) ~>
      \/ pc[c] = "threw"
      \/ /\ pc[c] = "done"
         /\ \/ aborted[c]
            \/ ReplySeen(c)
            \/ result[c] = <<CancelledOutcome(TimeoutReason(timeoutSec[c]))>>

\* the three terminal conditions of a poll tick, as the specification
\* states them
AbortSet(c) == aborted[c]
DeadlinePassed(c) == now - startTime[c] > timeoutSec[c] * 1000
ReplyReady(c) ==
  /\ responseFile(questionId[c]) \in DOMAIN dir
  /\ dir[responseFile(questionId[c])] # Partial
Returns(c) == result'[c] # result[c]

\* C1: a call returns at most one outcome, it returns only at a poll tick
\* where the abort signal is set, the deadline has passed or a parseable
\* reply for its own id is present, and while none of the three holds it
\* stays in its poll loop
C1_ReturnsOnlyWhenTerminal ==
  [][\A c \in Calls :
       /\ Len(result'[c]) <= 1
       /\ Returns(c) =>
            pc[c] = "poll" /\ (AbortSet(c) \/ DeadlinePassed(c) \/ ReplyReady(c))
       /\ (pc[c] = "poll" /\ ~(AbortSet(c) \/ DeadlinePassed(c) \/ ReplyReady(c)))
            => pc'[c] = "poll"]_vars

\* a call has returned its one outcome while the other is still polling
C1_Witness ==
  \E c, d \in Calls :
    pc[c] = "done" /\ Len(result[c]) = 1 /\ pc[d] = "poll" /\ result[d] = << >>

\* a call has returned the timeout outcome as a value, with no abort signal
\* and no reply for its question
C2_Witness ==
  \E c \in Calls :
    /\ pc[c] = "done" /\ ~aborted[c] /\ ~ReplySeen(c)
    /\ result[c] = <<CancelledOutcome(TimeoutReason(timeoutSec[c]))>>

\* C3: a call that returns responded: true returns the text the human
\* entered for the question of its own id, joined with newlines and trimmed,
\* and the replies written for other ids stay in the mailbox untouched
C3_RoundTrip ==
  [][\A c \in Calls :
       (Returns(c) /\ result'[c][1].responded) =>
         /\ questionId[c] \in DOMAIN answered
         /\ result'[c][1].response = trim(join(answered[questionId[c]]))
         /\ \A f \in DOMAIN dir :
              (f.kind = "response" /\ f.id # questionId[c]) =>
                f \in DOMAIN dir' /\ dir'[f] = dir[f]]_vars

\* a call has returned the text "a" entered for its question while the
\* reply of the other call, a cancellation, waits in the mailbox
C3_Witness ==
  \E c, d \in Calls :
    /\ pc[c] = "done" /\ result[c] = <<AnsweredOutcome(<<"a">>)>>
    /\ answered[questionId[c]] = <<LineA, LineBlank>>
    /\ d # c /\ pc[d] = "poll" /\ ReplyReady(d)
    /\ ~dir[responseFile(questionId[d])].responded

\* C4: at a tick the abort signal wins over the deadline and the reply, the
\* deadline wins over the reply, and a reply is consumed only when neither
\* the abort signal is set nor the deadline has passed
C4_PriorityOrder ==
  [][\A c \in Calls :
       Returns(c) =>
         /\ AbortSet(c) => result'[c][1] = CancelledOutcome(AbortedReason)
         /\ (~AbortSet(c) /\ DeadlinePassed(c)) =>
              result'[c][1] = CancelledOutcome(TimeoutReason(timeoutSec[c]))
         /\ (~AbortSet(c) /\ ~DeadlinePassed(c)) =>
              result'[c][1] \in {ReplyOutcome(dir[responseFile(questionId[c])])}]_vars

\* a call has returned the timeout outcome although a complete reply for its
\* question is in the mailbox
C4_Witness ==
  \E c \in Calls :
    /\ pc[c] = "done" /\ ~aborted[c]
    /\ result[c] = <<CancelledOutcome(TimeoutReason(timeoutSec[c]))>>
    /\ ReplyReady(c)

\* C5: a call whose abort signal fired before it returned returns the
\* aborted outcome, and a reply written for its question, before or after,
\* stays in the mailbox: no call consumes it
C5_AbortWinsLateReplyStays ==
  \A c \in Calls :
    (pc[c] = "done" /\ aborted[c]) =>
      /\ result[c] = <<CancelledOutcome(AbortedReason)>>
      /\ questionId[c] \in DOMAIN answered =>
           responseFile(questionId[c]) \in DOMAIN dir

\* an aborted call has returned and the complete reply for its question
\* lies in the mailbox while the other call has returned an answer
C5_Witness ==
  \E c, d \in Calls :
    /\ pc[c] = "done" /\ aborted[c] /\ ReplyReady(c)
    /\ questionId[c] \in DOMAIN answered
    /\ d # c /\ pc[d] = "done" /\ result[d][1].responded

\* the Responder begins to present a question: printQuestion and promptUser
PresentStep == rpc # "prompt" /\ rpc' = "prompt"
Presented == questions'[qi'].id
\* the Responder begins to write a reply record
WriteStep == rpc = "prompt" /\ rpc' = "write"

\* C6: the Responder writes the reply record of a request id at most once:
\* when it begins to write a reply, no reply for that id has been written
\* before and no reply file for that id is in the mailbox
C6_ReplyWrittenOnce ==
  [][WriteStep =>
       /\ questions[qi].id \notin DOMAIN answered
       /\ ~existsSync(responseFile(questions[qi].id))]_vars

\* the question and reply files of the mailbox, by owner
QuestionRecords(d) == {f \in DOMAIN d : f.kind = "question"}
ReplyRecords(d) == {f \in DOMAIN d : f.kind = "response"}

\* C7: a step of the Responder (a restart included) leaves every question
\* file as it is, and a step of the Requester creates no reply file and
\* changes the content of none
C7_Ownership ==
  [][/\ (ResponderNext \/ Restart) =>
          /\ QuestionRecords(dir') = QuestionRecords(dir)
          /\ \A f \in QuestionRecords(dir) : dir'[f] = dir[f]
     /\ RequesterNext =>
          /\ ReplyRecords(dir') \subseteq ReplyRecords(dir)
          /\ \A f \in ReplyRecords(dir') : dir'[f] = dir[f]]_vars

\* the Responder has written a complete reply next to the question file,
\* and the Requester has removed the files of another call
C7_Witness ==
  \E c, d \in Calls :
    /\ ReplyReady(c) /\ existsSync(questionFile(questionId[c]))
    /\ d # c /\ pc[d] = "done"
    /\ ~existsSync(questionFile(questionId[d]))

\* C8: within one lifetime of the Responder a question that is presented is
\* not in the seen-set, it is in the set from then on, and the set only
\* loses members when the process is restarted
C8_PresentedOncePerLifetime ==
  [][/\ PresentStep =>
          Presented \notin processedQuestions /\ Presented \in processedQuestions'
     /\ processedQuestions \subseteq processedQuestions' \/ Restart]_vars

\* a question is presented while the complete question file of an id of the
\* seen-set, already answered, is still in the mailbox
C8_Witness ==
  /\ rpc = "prompt"
  /\ \E id \in processedQuestions :
       /\ id # questions[qi].id /\ id \in DOMAIN answered
       /\ existsSync(questionFile(id)) /\ dir[questionFile(id)] # Partial

\* a call has returned the reply to its question and its files are gone
AnsweredAndCleanedUp(id) ==
  \E c \in Calls :
    /\ questionId[c] = id /\ pc[c] = "done"
    /\ result[c][1].responded \/ result[c][1].reason = CancelledReason
    /\ ~existsSync(questionFile(id)) /\ ~existsSync(responseFile(id))

\* C9: a request that was answered and cleaned up by the Requester is never
\* presented again
C9_CleanedUpNeverPresented ==
  [][PresentStep => ~AnsweredAndCleanedUp(Presented)]_vars

\* C10: the Responder begins to present a question only when every question
\* it has presented in this lifetime has its reply written (the step that
\* completes the reply of one question is the step that goes on to the
\* next), and the
\* questions of one scan are presented in ascending order of file name
C10_OneAtATimeInOrder ==
  [][PresentStep =>
       /\ \A id \in processedQuestions : id \in DOMAIN answered'
       /\ rpc = "write" =>
            /\ questions' = questions /\ qi' > qi
            /\ FileLess(questionFile(questions[qi].id),
                        questionFile(questions'[qi'].id))]_vars

\* the second question of one scan is being presented after the first one
\* of that scan was answered
C10_Witness ==
  /\ rpc = "prompt" /\ qi = 2 /\ Len(questions) = 2
  /\ questions[1].id \in DOMAIN answered
  /\ questions[2].id \notin DOMAIN answered

\* C11: in a run with no failed file operation and no restart, while both
\* calls wait in their poll loops, the question of the call made later is
\* presented only after the question of the call made earlier
C11_CreationOrder ==
  [][(/\ PresentStep /\ Presented = questionId[2]
      /\ incidents = 0 /\ pc[1] = "poll" /\ pc[2] = "poll")
       => questionId[1] \in processedQuestions]_vars

\* the word cancel in the letter cases the human types in the model
IsCancelWord(text) == text \in {<<"c", "a", "n", "c", "e", "l">>, LineCancel}
\* call c consumes the reply at this step
ConsumesReply(c) == Returns(c) /\ ~AbortSet(c) /\ ~DeadlinePassed(c)

\* C12: a reply record on disk has responded = FALSE and empty text when the
\* lines entered, joined and trimmed, are the word cancel in any letter
\* case, and responded = TRUE otherwise; the call that consumes a cancel
\* reply returns the user-cancelled outcome with no text
C12_CancelKeyword ==
  /\ [](\A id \in DOMAIN answered :
          (responseFile(id) \in DOMAIN dir /\ dir[responseFile(id)] # Partial) =>
            LET rec == dir[responseFile(id)]
            IN IF IsCancelWord(trim(join(answered[id])))
               THEN ~rec.responded /\ rec.response = << >>
               ELSE rec.responded)
  /\ [][\A c \in Calls :
          (ConsumesReply(c) /\ IsCancelWord(trim(join(answered[questionId[c]]))))
            => result'[c][1] =
                 [responded |-> FALSE, response |-> << >>, cancelled |-> TRUE,
                  reason |-> <<"User cancelled the request">>]]_vars

\* a call has returned the user-cancelled outcome for the input "Cancel"
C12_Witness ==
  \E c \in Calls :
    /\ pc[c] = "done" /\ ~aborted[c]
    /\ result[c] = <<CancelledOutcome(CancelledReason)>>
    /\ questionId[c] \in DOMAIN answered
    /\ answered[questionId[c]] = <<LineBlank, LineCancel>>

\* C13: every returned outcome has exactly one of responded and cancelled
\* true, a reason exactly when cancelled, and empty text unless responded;
\* the cancelled outcomes differ only in the reason
C13_WellFormedOutcome ==
  \A c \in Calls : \A i \in 1..Len(result[c]) :
    LET r == result[c][i]
    IN /\ r.responded # r.cancelled
       /\ ("reason" \in DOMAIN r) <=> r.cancelled
       /\ ~r.responded => r.response = << >>
       /\ r.cancelled =>
            /\ r.reason \in {AbortedReason, CancelledReason,
                             TimeoutReason(timeoutSec[c])}
            /\ [r EXCEPT !.reason = << >>] = CancelledOutcome(<< >>)

\* the two calls have returned outcomes of different kinds: an answer and a
\* cancellation
C13_Witness ==
  \E c, d \in Calls :
    /\ pc[c] = "done" /\ result[c][1].responded
    /\ pc[d] = "done" /\ result[d][1].cancelled

\* C14: when a call returns an outcome its question file is not in the
\* mailbox, when the outcome comes from a reply the reply file is gone as
\* well, and a tick that finds the question file already absent does not
\* end the call with an error
C14_CleanupOnReturn ==
  [][\A c \in Calls :
       /\ Returns(c) => ~(questionFile(questionId[c]) \in DOMAIN dir')
       /\ ConsumesReply(c) => ~(responseFile(questionId[c]) \in DOMAIN dir')
       /\ (/\ pc[c] = "poll" /\ ~existsSync(questionFile(questionId[c]))
           /\ pc'[c] # "poll") => pc'[c] = "done"]_vars

\* a call has consumed its reply and both of its files are gone, while the
\* question file of the other call, still polling, is in the mailbox
C14_Witness ==
  \E c, d \in Calls :
    /\ pc[c] = "done" /\ result[c][1].responded
    /\ ~existsSync(questionFile(questionId[c]))
    /\ ~existsSync(responseFile(questionId[c]))
    /\ pc[d] = "poll" /\ existsSync(questionFile(questionId[d]))

\* call c polls, its reply file is on disk but incomplete, and neither the
\* abort signal nor the deadline ends the call
PartialReply(c) ==
  /\ pc[c] = "poll" /\ ~AbortSet(c) /\ ~DeadlinePassed(c)
  /\ responseFile(questionId[c]) \in DOMAIN dir
  /\ dir[responseFile(questionId[c])] = Partial

\* C15: while the reply file of a call does not parse, no step returns an
\* outcome for the call or deletes its question or reply file, and the call
\* stays in its loop; once the reply is complete and neither abort nor
\* timeout holds, the tick that consumes it is enabled
C15_PartialReplyRetried ==
  /\ [][\A c \in Calls :
          PartialReply(c) =>
            /\ result'[c] = result[c] /\ pc'[c] = "poll"
            /\ responseFile(questionId[c]) \in DOMAIN dir'
            /\ existsSync(questionFile(questionId[c])) =>
                 questionFile(questionId[c]) \in DOMAIN dir']_vars
  /\ [](\A c \in Calls :
          (pc[c] = "poll" /\ ReplyReady(c) /\ ~AbortSet(c) /\ ~DeadlinePassed(c))
            => ENABLED TickReply(c))

\* a polling call sees the incomplete reply file next to its question file
C15_Witness ==
  \E c \in Calls :
    PartialReply(c) /\ existsSync(questionFile(questionId[c])) /\ rpc = "write"

\* C16: a file operation that throws inside the poll loop of a call ends
\* the call with the error
C16_ErrorsPropagate ==
  [][\A c \in Calls :
       (TickThrow(c) \/ TickCleanupThrows(c)) => pc'[c] = "threw"]_vars

\* C17: a file operation that fails in the Responder does not end the
\* Responder process
C17_ResponderSurvives == rpc # "exited"

\* C18: input collection ends, and the reply is written, on an empty line
\* after at least one non-empty line and on the second of two empty lines
\* in a row when no non-empty line was entered
C18_InputTerminates ==
  [][(/\ rpc = "prompt" /\ emptyLineCount' = emptyLineCount + 1
      /\ (Len(lines) > 0 \/ emptyLineCount >= 1))
       => rpc' = "write"]_vars

\* the Responder keeps running: its scan loop goes on, the human goes on
\* typing until the input is submitted, and a write that has begun completes
ResponderFairness ==
  WF_vars(\/ Scan({})
          \/ \E line \in InputLines : TypeLine(line)
          \/ Submit
          \/ WriteDone)

\* the steps of a run in which no file operation throws and the Responder
\* process is not restarted
QuietNext ==
  \/ \E c \in Calls :
       \/ \E t \in TimeoutArgs, r \in RandomsOf(c) : AskBegin(c, t, r)
       \/ AskWritten(c)
       \/ TickAbort(c) \/ TickTimeout(c) \/ TickReply(c)
       \/ TickRetry(c) \/ TickSleep(c)
  \/ Scan({})
  \/ \E line \in InputLines : TypeLine(line)
  \/ TypeEmpty \/ Submit \/ WriteDone
  \/ \E c \in Calls : Abort(c)
  \/ AdvanceClock

ResponderFairSpec == Init /\ [][QuietNext]_vars /\ ResponderFairness

\* the question of call c is completely written, in the mailbox, and not
\* presented yet in this lifetime of the Responder
Waiting(c) ==
  /\ existsSync(questionFile(questionId[c]))
  /\ dir[questionFile(questionId[c])] # Partial
  /\ questionId[c] \notin processedQuestions
\* the question of call c is on the screen
OnScreen(c) == rpc = "prompt" /\ questions[qi].id = questionId[c]

\* C19: with the Responder running and the human finishing every prompt, a
\* complete question file that waits in the mailbox is presented, unless
\* the file is removed or the Responder process ends first
C19_EventuallyPresented ==
  \A c \in Calls :
    Waiting(c) ~>
      \/ OnScreen(c)
      \/ ~existsSync(questionFile(questionId[c]))
      \/ rpc = "exited"

\* the question of the second call is on the screen, its file in the
\* mailbox, after the first question of the same scan was answered
C19_Witness ==
  \E c, d \in Calls :
    /\ OnScreen(c) /\ existsSync(questionFile(questionId[c]))
    /\ d # c /\ questionId[d] \in processedQuestions
    /\ questionId[d] \in DOMAIN answered /\ incidents = 0

\* C20: a question is presented only while its question file is in the
\* mailbox
C20_PresentedIsInMailbox ==
  [][PresentStep => existsSync(questionFile(Presented))]_vars

\* call c has returned, at this step or before, the aborted or the timeout
\* outcome
EndedWithoutReply(c) ==
  /\ pc'[c] = "done"
  /\ result'[c] \in {<<CancelledOutcome(AbortedReason)>>,
                     <<CancelledOutcome(TimeoutReason(timeoutSec[c]))>>}

\* C21: at the step where a call returns the aborted or the timeout outcome
\* and at every later step, a reply file for its id stays in the mailbox,
\* and a completely written one keeps its content
C21_ReplyLeftAlone ==
  [][\A c \in Calls :
       (EndedWithoutReply(c) /\ existsSync(responseFile(questionId[c]))) =>
         /\ responseFile(questionId[c]) \in DOMAIN dir'
         /\ dir[responseFile(questionId[c])] # Partial =>
              dir'[responseFile(questionId[c])] = dir[responseFile(questionId[c])]]_vars
=============================================================================
